---- MODULE Spec2Model ----
(***************************************************************************)
(* A model of GIF Maker v2 (src/main.py): the frame extractor, the         *)
(* timeline selection, the export job (interactive thread, worker thread   *)
(* and the Tk `after' queue between them) and the batch job.               *)
(*                                                                         *)
(* A frame is represented by its position in the source container, so     *)
(* that the order and the origin of every frame can be followed from the   *)
(* decoder to the encoder.                                                 *)
(***************************************************************************)
EXTENDS Integers, Sequences, FiniteSets, TLC

(* ------------------------------ bounds -------------------------------- *)

\* the longest container, in frames
MaxFrames == 3

\* the largest frame-skip (stride) tried
MaxSkip == 2

\* the longest container handed to one followed call of extract_frames
MaxExtract == 4

\* export jobs started in one behaviour
MaxJobs == 2

\* the longest list of inputs handed to one batch
MaxBatch == 4

\* the text overlays a session holds at most
MaxOverlays == 3

\* the pending animate_preview callbacks followed at most
MaxTimers == 3

(* -------------------------- program constants ------------------------- *)

\* tk.Scale(..., from_=0, to=100): the sliders' range before a video is loaded
SliderInitTo == 100

\* process_video: skip = max(1, total_frames // 100)
PreviewTarget == 100

\* export_gif: colors < 32 or colors > 256 is rejected
MinColors == 32
MaxColors == 256

\* _batch_worker: extract_frames(video_path, skip_frames=2)
BatchSkip == 2

(* ------------------------------ helpers ------------------------------- *)

Min(a, b) == IF a < b THEN a ELSE b
Max(a, b) == IF a > b THEN a ELSE b

\* frames[::-1]
Reverse(s) == [k \in 1..Len(s) |-> s[Len(s) + 1 - k]]

(* ------------------------------ videos -------------------------------- *)

\* A path and the container behind it: `total' is what CAP_PROP_FRAME_COUNT
\* reports, `readable' is the number of frames cap.read() delivers before it
\* fails.  The empty path (a cancelled file dialog) opens nothing.
EmptyPath == [name |-> "", total |-> 0, readable |-> 0]

Container(t, r) == [name |-> "video", total |-> t, readable |-> r]

\* readable videos, videos whose last frame cannot be decoded, and a file
\* that cannot be opened at all (OpenCV reports 0 frames and reads nothing)
Videos ==
    {Container(t, t) : t \in 1..MaxFrames}
        \cup {Container(t, t - 1) : t \in 1..MaxFrames}
        \cup {Container(0, 0)}

(* --------------------------- extract_frames --------------------------- *)

\* cap.read(): ret is True while the position is inside the readable part
cap_read(video, pos) == pos < video.readable

\* the locals of extract_frames after cap.set(CAP_PROP_POS_FRAMES, start_frame)
ExtractStart(video, start, end, skip) ==
    [video |-> video, start_frame |-> start, end_frame |-> end,
     skip_frames |-> skip, pos |-> start, frame_count |-> 0,
     frames |-> <<>>, reads |-> 0, done |-> FALSE]

\* the mutant of ExtractIter: the retained frames are off by one position
ExtractIterOffByOne(s) ==
    IF ~(s.frame_count < s.end_frame - s.start_frame)
    THEN [s EXCEPT !.done = TRUE]
    ELSE IF ~cap_read(s.video, s.pos)
         THEN [s EXCEPT !.done = TRUE, !.reads = @ + 1]
         ELSE [s EXCEPT
                 !.frames = IF (s.frame_count + 1) % s.skip_frames = 0
                            THEN Append(@, s.pos) ELSE @,
                 !.frame_count = @ + 1, !.pos = @ + 1, !.reads = @ + 1]

\* the mutant of ExtractIter: a failed read is retried instead of ending the loop
ExtractIterNoBreak(s) ==
    IF ~(s.frame_count < s.end_frame - s.start_frame)
    THEN [s EXCEPT !.done = TRUE]
    ELSE IF ~cap_read(s.video, s.pos)
         THEN [s EXCEPT !.frame_count = @ + 1, !.pos = @ + 1, !.reads = @ + 1]
         ELSE [s EXCEPT
                 !.frames = IF s.frame_count % s.skip_frames = 0
                            THEN Append(@, s.pos) ELSE @,
                 !.frame_count = @ + 1, !.pos = @ + 1, !.reads = @ + 1]

\* one evaluation of the while condition and, if it holds, one loop body
ExtractIter(s) ==
    IF ~(s.frame_count < s.end_frame - s.start_frame)
    THEN [s EXCEPT !.done = TRUE]
    ELSE IF ~cap_read(s.video, s.pos)
         THEN [s EXCEPT !.done = TRUE, !.reads = @ + 1]
         ELSE [s EXCEPT
                 !.frames = IF s.frame_count % s.skip_frames = 0
                            THEN Append(@, s.pos) ELSE @,
                 !.frame_count = @ + 1, !.pos = @ + 1, !.reads = @ + 1]

RECURSIVE ExtractRun(_)
ExtractRun(s) == IF s.done THEN s ELSE ExtractRun(ExtractIter(s))

\* VideoProcessor.extract_frames(video_path, start_frame, end_frame, skip_frames)
extract_frames(video, start, end, skip) ==
    ExtractRun(ExtractStart(video, start, end, skip)).frames

\* extract_frames(video_path, skip_frames=skip): start_frame=0, end_frame=None
extract_frames_default(video, skip) ==
    extract_frames(video, 0, video.total, skip)

\* VideoProcessor.get_video_info: the part of the metadata the model follows
get_video_info(video) == [set |-> TRUE, total_frames |-> video.total]

\* self.video_info = None
NoInfo == [set |-> FALSE, total_frames |-> 0]

(* --------------------------- the frame pipeline ------------------------ *)

\* An image is followed by its size, by the colour of its pixels (the frames
\* followed are of one colour, so that every filter can be computed on them),
\* by the texts drawn on it, by whether a watermark was pasted and by the
\* palette size it was reduced to (0: not reduced) with the dithering used in
\* that reduction ("": not reduced).
Image(w, h, px) ==
    [w |-> w, h |-> h, px |-> px, texts |-> <<>>, watermark |-> FALSE,
     palette |-> 0, dither |-> ""]

\* Image.convert('L') of one pixel: (r*19595 + g*38470 + b*7471 + 0x8000) >> 16
Luma(px) == (px[1] * 19595 + px[2] * 38470 + px[3] * 7471 + 32768) \div 65536

\* Image.blend(degenerate, image, factor) on one channel, as ImageEnhance
\* uses it: degenerate + factor * (value - degenerate), cut to 0..255 and
\* truncated; the factor is kept in tenths
Blend(degenerate, value, factor) ==
    LET num == 10 * degenerate + factor * (value - degenerate) IN
    IF num <= 0 THEN 0 ELSE IF num >= 2550 THEN 255 ELSE num \div 10

\* ImageEnhance.Brightness: the degenerate image is black
Brightness(px, factor) == [c \in 1..3 |-> Blend(0, px[c], factor)]

\* ImageEnhance.Contrast: the degenerate image is the mean grey of the image
Contrast(px, factor) == [c \in 1..3 |-> Blend(Luma(px), px[c], factor)]

\* ImageEnhance.Color: the degenerate image is the grey version of the image
Saturation(px, factor) == [c \in 1..3 |-> Blend(Luma(px), px[c], factor)]

\* img.convert('L').convert('RGB')
Grayscale(px) == <<Luma(px), Luma(px), Luma(px)>>

\* int(gray * 0.7): the product is a float, and for these three greys it
\* lies just below the integer
TruncTimes07(gray) ==
    IF gray \in {90, 170, 180} THEN (gray * 7) \div 10 - 1 ELSE (gray * 7) \div 10

\* lines 92-100: (int(gray * 0.9), int(gray * 0.7), int(gray * 0.4))
Sepia(px) ==
    LET gray == Luma(px) IN
    <<(gray * 9) \div 10, TruncTimes07(gray), (gray * 4) \div 10>>

\* the mutant of StageOrder: the sepia tone is computed before the grayscale
\* conversion
StageOrderSepiaFirst ==
    <<"rotate", "flip_h", "flip_v", "brightness", "contrast", "saturation",
      "sepia", "grayscale", "crop", "resize", "text", "watermark", "quantize">>

\* the order in which _export_worker takes a frame through its steps:
\* apply_filters (lines 61-100), then lines 1027-1080
StageOrder ==
    <<"rotate", "flip_h", "flip_v", "brightness", "contrast", "saturation",
      "grayscale", "sepia", "crop", "resize", "text", "watermark", "quantize">>

\* the position of a stage in the order
StageIndex(stage) == CHOOSE k \in 1..Len(StageOrder) : StageOrder[k] = stage

\* the stage after `stage', "done" after the last
NextStage(stage) ==
    IF StageIndex(stage) = Len(StageOrder) THEN "done"
    ELSE StageOrder[StageIndex(stage) + 1]

\* the size of the canvas _export_worker assumes the crop was drawn on
ExportCanvas == [w |-> 700, h |-> 400]

\* line 243: the canvas the crop region is dragged on
PreviewCanvas == [w |-> 600, h |-> 300]

\* line 711: the size of the canvas display_frame assumes
DisplayCanvas == [w |-> 650, h |-> 350]

\* lines 1029-1035: the crop box for a region of the canvas, from the size of
\* the frame and of the canvas; the frames followed have a size for which
\* w / canvas_w is an exact float
crop_box(region, frame_w, frame_h, canvas) ==
    <<(region.x1 * frame_w) \div canvas.w, (region.y1 * frame_h) \div canvas.h,
      (region.x2 * frame_w) \div canvas.w, (region.y2 * frame_h) \div canvas.h>>

\* the locals of one iteration of the frame loop before apply_filters: the
\* frame `src' of size frame_w x frame_h, and the worker's scale and colors;
\* `ops' records the steps that changed the image, `box' the crop box used,
\* `swallowed' that the watermark step raised and its except clause passed
StartFrame(src, frame_w, frame_h, px, scale, colors) ==
    [pc |-> StageOrder[1], src |-> src, frame_w |-> frame_w, frame_h |-> frame_h,
     img |-> Image(frame_w, frame_h, px), ops |-> <<>>, box |-> <<>>,
     swallowed |-> FALSE, scale |-> scale, colors |-> colors]

\* the mutant of StageApplies: the grayscale conversion is made whatever its flag
StageAppliesGrayscaleAlways(stage, s, env) ==
    CASE stage = "rotate" -> env.filters.rotation # 0
      [] stage = "flip_h" -> env.filters.flip_h
      [] stage = "flip_v" -> env.filters.flip_v
      [] stage = "brightness" -> env.filters.brightness # 10
      [] stage = "contrast" -> env.filters.contrast # 10
      [] stage = "saturation" -> env.filters.saturation # 10
      [] stage = "grayscale" -> TRUE
      [] stage = "sepia" -> env.filters.sepia
      [] stage = "crop" -> env.crop_coords.set
      [] stage = "resize" -> TRUE
      [] stage = "text" -> env.text_overlays # <<>>
      [] stage = "watermark" -> env.watermark_path.name # "" /\ env.watermark_path.loadable
      [] stage = "quantize" -> s.colors < 256

\* whether a stage changes the image under the settings `env'
StageApplies(stage, s, env) ==
    CASE stage = "rotate" -> env.filters.rotation # 0
      [] stage = "flip_h" -> env.filters.flip_h
      [] stage = "flip_v" -> env.filters.flip_v
      [] stage = "brightness" -> env.filters.brightness # 10
      [] stage = "contrast" -> env.filters.contrast # 10
      [] stage = "saturation" -> env.filters.saturation # 10
      [] stage = "grayscale" -> env.filters.grayscale
      [] stage = "sepia" -> env.filters.sepia
      [] stage = "crop" -> env.crop_coords.set
      [] stage = "resize" -> TRUE
      [] stage = "text" -> env.text_overlays # <<>>
      [] stage = "watermark" -> env.watermark_path.name # "" /\ env.watermark_path.loadable
      [] stage = "quantize" -> s.colors < 256

\* lines 1045-1058: the overlays are drawn one after the other, each over
\* what was drawn before; `drawn' lists what is on the image, bottom first
RECURSIVE draw_texts(_, _)
draw_texts(drawn, overlays) ==
    IF overlays = <<>> THEN drawn
    ELSE draw_texts(Append(drawn, Head(overlays)), Tail(overlays))

\* the image a stage makes of the image img.  The colour reduction of line
\* 1079 is convert('P', palette=Image.ADAPTIVE, colors=colors): no dither
\* argument is given and self.dither_var is not read, and an adaptive palette
\* is built and mapped without error diffusion
StageImage(stage, s, env) ==
    LET img == s.img
        box == crop_box(env.crop_coords, s.frame_w, s.frame_h, ExportCanvas)
    IN
    CASE stage = "rotate" ->
             IF env.filters.rotation \in {90, 270}
             THEN [img EXCEPT !.w = img.h, !.h = img.w] ELSE img
      [] stage \in {"flip_h", "flip_v"} -> img
      [] stage = "brightness" ->
             [img EXCEPT !.px = Brightness(@, env.filters.brightness)]
      [] stage = "contrast" -> [img EXCEPT !.px = Contrast(@, env.filters.contrast)]
      [] stage = "saturation" ->
             [img EXCEPT !.px = Saturation(@, env.filters.saturation)]
      [] stage = "grayscale" -> [img EXCEPT !.px = Grayscale(@)]
      [] stage = "sepia" -> [img EXCEPT !.px = Sepia(@)]
      [] stage = "crop" -> [img EXCEPT !.w = box[3] - box[1], !.h = box[4] - box[2]]
      [] stage = "resize" ->
             [img EXCEPT !.w = (img.w * s.scale.tenths) \div 10,
                         !.h = (img.h * s.scale.tenths) \div 10]
      [] stage = "text" -> [img EXCEPT !.texts = draw_texts(@, env.text_overlays)]
      [] stage = "watermark" -> [img EXCEPT !.watermark = TRUE]
      [] stage = "quantize" -> [img EXCEPT !.palette = s.colors, !.dither = "NONE"]

\* the mutant of StageStep: a watermark that cannot be loaded ends the frame
StageStepWatermarkFatal(s, env) ==
    IF (s.pc = "resize" /\ s.scale.nan)
       \/ (s.pc = "watermark" /\ env.watermark_path.name # ""
              /\ ~env.watermark_path.loadable)
    THEN [s EXCEPT !.pc = "raised"]
    ELSE IF StageApplies(s.pc, s, env)
    THEN [s EXCEPT !.img = StageImage(s.pc, s, env),
                   !.ops = Append(@, s.pc),
                   !.box = IF s.pc = "crop"
                           THEN crop_box(env.crop_coords, s.frame_w, s.frame_h,
                                         ExportCanvas)
                           ELSE @,
                   !.pc = NextStage(s.pc)]
    ELSE [s EXCEPT !.pc = NextStage(s.pc)]

\* one stage of the frame loop under the settings `env' read at that moment.
\* int(img.width * scale) raises ValueError for a NaN scale; a watermark that
\* cannot be loaded raises inside try/except: pass and leaves the image alone
StageStep(s, env) ==
    IF s.pc = "resize" /\ s.scale.nan
    THEN [s EXCEPT !.pc = "raised"]
    ELSE IF StageApplies(s.pc, s, env)
    THEN [s EXCEPT !.img = StageImage(s.pc, s, env),
                   !.ops = Append(@, s.pc),
                   !.box = IF s.pc = "crop"
                           THEN crop_box(env.crop_coords, s.frame_w, s.frame_h,
                                         ExportCanvas)
                           ELSE @,
                   !.pc = NextStage(s.pc)]
    ELSE [s EXCEPT !.pc = NextStage(s.pc),
                   !.swallowed = @ \/ (s.pc = "watermark"
                                          /\ env.watermark_path.name # "")]

RECURSIVE RunStages(_, _)
RunStages(s, env) ==
    IF s.pc \in {"done", "raised"} THEN s ELSE RunStages(StageStep(s, env), env)

(* ------------------------------- state -------------------------------- *)

VARIABLES
    ex,              \* the locals of one call of extract_frames (SpecExtract)
    frame_it,        \* the locals of one iteration of the frame loop (SpecFrame)
    video_path,      \* self.video_path
    video_info,      \* self.video_info
    frames,          \* self.frames: the preview frames
    start_frame,     \* self.start_frame
    end_frame,       \* self.end_frame
    start_slider,    \* the value of self.start_slider
    end_slider,      \* the value of self.end_slider
    slider_to,       \* the `to' option of both sliders
    timeline_cmd,    \* a slider's value was changed by the program: its command
                     \* (update_timeline) is pending in the event loop
    skip_frames_var, \* self.skip_frames_var
    reverse_var,     \* self.reverse_var
    crop_start,      \* self.crop_start, an attribute that exists during a drag
    crop_coords,     \* self.crop_coords
    watermark_path,  \* self.watermark_path and the file behind it
    filters,         \* the variables of the Effects tab: brightness_var, ...
    text_overlays,   \* self.text_overlays
    format_var,      \* self.format_var
    dither_var,      \* self.dither_var
    preview_running, \* self.preview_running
    preview_frame_index, \* self.preview_frame_index
    play_button,     \* the text of the play button: "Play" or "Pause"
    preview_timers,  \* the number of pending self.after(50, self.animate_preview)
    info_text,       \* the threads that have written to the self.info_text widget
    export_button,   \* the state of self.export_button
    progress_value,  \* self.progress['value']
    status_label,    \* the text of self.status_label
    last_dialog,     \* the last message box a handler of the interactive thread showed
    workers,         \* the _export_worker threads started so far, in order
    batches,         \* the _batch_worker threads started so far, in order
    after_queue,     \* callbacks scheduled with self.after(0, ...), oldest first
    delivered,       \* per export job: the callbacks run on the interactive thread
    batch_delivered, \* per batch job: the callbacks run on the interactive thread
    files            \* the output files: path -> the frames written, or absent

timeline_vars ==
    <<video_path, video_info, frames, start_frame, end_frame,
      start_slider, end_slider, slider_to, timeline_cmd>>

settings_vars == <<skip_frames_var, reverse_var>>

edit_vars ==
    <<crop_start, crop_coords, watermark_path, filters, text_overlays, format_var,
      dither_var>>

preview_vars == <<preview_running, preview_frame_index, play_button, preview_timers>>

widget_vars == <<export_button, progress_value, status_label, last_dialog>>

job_vars == <<workers, after_queue, delivered, files>>

batch_vars == <<batches, batch_delivered>>

vars ==
    <<ex, frame_it, video_path, video_info, frames, start_frame, end_frame,
      start_slider, end_slider, slider_to, timeline_cmd,
      skip_frames_var, reverse_var,
      crop_start, crop_coords, watermark_path, filters, text_overlays, format_var,
      dither_var,
      preview_running, preview_frame_index, play_button, preview_timers,
      info_text,
      export_button, progress_value, status_label, last_dialog,
      workers, batches, after_queue, delivered, batch_delivered, files>>

\* no call of extract_frames is being followed
ExIdle == [ExtractStart(EmptyPath, 0, 0, 1) EXCEPT !.done = TRUE]

\* the text of the status label; the two counters are those of
\* "Processing frame i/total" and "Batch: Processing i/n"
StatusText(text) == [text |-> text, completed |-> 0, total |-> 0]

\* no iteration of the frame loop is being followed
FrIdle ==
    [StartFrame(0, 0, 0, <<0, 0, 0>>, [ok |-> TRUE, nan |-> FALSE, tenths |-> 10], 256)
        EXCEPT !.pc = "done"]

\* no drag in progress: the attribute crop_start does not exist
NoPoint == [set |-> FALSE, x |-> 0, y |-> 0]

\* self.crop_coords = None
NoCrop == [set |-> FALSE, x1 |-> 0, y1 |-> 0, x2 |-> 0, y2 |-> 0]

\* self.crop_coords = (x1, y1, x2, y2)
Region(x1, y1, x2, y2) == [set |-> TRUE, x1 |-> x1, y1 |-> y1, x2 |-> x2, y2 |-> y2]

\* self.watermark_path = ''
NoWatermark == [name |-> "", loadable |-> FALSE]

\* the Effects tab after construction; the three factors are kept in tenths
DefaultFilters ==
    [rotation |-> 0, flip_h |-> FALSE, flip_v |-> FALSE, brightness |-> 10,
     contrast |-> 10, saturation |-> 10, grayscale |-> FALSE, sepia |-> FALSE]

\* what the frame loop reads from the session when it reaches a step
LiveSettings ==
    [filters |-> filters, crop_coords |-> crop_coords,
     text_overlays |-> text_overlays, watermark_path |-> watermark_path]

\* log_info called on a thread: it inserts into the info_text widget
log_info(thread) == info_text' = info_text \cup {thread}

\* no file at a path
NoFile ==
    [exists |-> FALSE, frames |-> <<>>, duration |-> 0, written_by |-> {},
     format |-> "", loop |-> 0, dither |-> ""]

\* the destinations a save dialog can return ("" is a cancelled dialog)
OutputPaths == {"out.gif"}

\* lines 128-129 and 255: playback is stopped at the first frame
InitPreview ==
    /\ preview_running = FALSE
    /\ preview_frame_index = 0
    /\ play_button = "Play"
    /\ preview_timers = 0

\* GIFMakerV2.__init__ and create_ui: the session after construction
InitSession ==
    /\ video_path = EmptyPath
    /\ video_info = NoInfo
    /\ frames = <<>>
    /\ start_frame = 0
    /\ end_frame = 0
    /\ start_slider = 0
    /\ end_slider = SliderInitTo
    /\ slider_to = SliderInitTo
    /\ timeline_cmd = FALSE
    /\ skip_frames_var = 1
    /\ reverse_var = FALSE
    /\ InitPreview
    /\ crop_start = NoPoint
    /\ crop_coords = NoCrop
    /\ watermark_path = NoWatermark
    /\ filters = DefaultFilters
    /\ text_overlays = <<>>
    /\ format_var = "GIF"
    /\ dither_var = "FLOYDSTEINBERG"
    /\ info_text = {}
    /\ export_button = "normal"
    /\ progress_value = 0
    /\ status_label = StatusText("Ready")
    /\ last_dialog = "none"
    /\ workers = <<>>
    /\ batches = <<>>
    /\ after_queue = <<>>
    /\ delivered = <<>>
    /\ batch_delivered = <<>>
    /\ files = [p \in OutputPaths |-> NoFile]

Init == ex = ExIdle /\ frame_it = FrIdle /\ InitSession

(* ------------------- extract_frames, one call at a time ---------------- *)

\* the calls followed: any video, any range 0 <= start <= end (the callers
\* pass start_frame <= end_frame), any stride from 1
ExtractInputs ==
    {ExtractStart(Container(t, r), s, e, k) :
        t \in 0..MaxExtract, r \in 0..MaxExtract,
        s \in 0..MaxExtract, e \in 0..MaxExtract, k \in 1..(MaxSkip + 1)}

InitExtract ==
    /\ ex \in {x \in ExtractInputs : x.start_frame <= x.end_frame}
    /\ frame_it = FrIdle
    /\ InitSession

\* the while condition is false: the loop ends
ExLoopExit ==
    /\ ~ex.done
    /\ ~(ex.frame_count < ex.end_frame - ex.start_frame)
    /\ ex' = ExtractIter(ex)
    /\ UNCHANGED <<frame_it, preview_vars, edit_vars, info_text, timeline_vars, settings_vars, widget_vars,
                   job_vars, batch_vars>>

\* cap.read() fails: break
ExBreak ==
    /\ ~ex.done
    /\ ex.frame_count < ex.end_frame - ex.start_frame
    /\ ~cap_read(ex.video, ex.pos)
    /\ ex' = ExtractIter(ex)
    /\ UNCHANGED <<frame_it, preview_vars, edit_vars, info_text, timeline_vars, settings_vars, widget_vars,
                   job_vars, batch_vars>>

\* cap.read() succeeds: the frame is retained or discarded
ExRead ==
    /\ ~ex.done
    /\ ex.frame_count < ex.end_frame - ex.start_frame
    /\ cap_read(ex.video, ex.pos)
    /\ ex' = ExtractIter(ex)
    /\ UNCHANGED <<frame_it, preview_vars, edit_vars, info_text, timeline_vars, settings_vars, widget_vars,
                   job_vars, batch_vars>>

NextExtract == ExLoopExit \/ ExBreak \/ ExRead

SpecExtract == InitExtract /\ [][NextExtract]_vars

(* ------------------------- the timeline selection ---------------------- *)

\* a Tk scale keeps its value inside [from_, to]
Clamp(v, to) == Max(0, Min(v, to))

\* GIFMakerV2.update_timeline with a video loaded, from the sliders' values
\* sv and ev: the new start_frame and end_frame, the end slider's value after
\* end_slider.set(end_frame), and whether that changed the slider
update_timeline(sv, ev, to) ==
    IF sv >= ev
    THEN [start_frame |-> sv, end_frame |-> sv + 1,
          end_slider |-> Clamp(sv + 1, to), changed |-> Clamp(sv + 1, to) # ev]
    ELSE [start_frame |-> sv, end_frame |-> ev, end_slider |-> ev, changed |-> FALSE]

\* the handler update_timeline run with the sliders at sv and ev
RunUpdateTimeline(sv, ev) ==
    IF ~video_info.set
    THEN /\ start_slider' = sv
         /\ end_slider' = ev
         /\ UNCHANGED <<start_frame, end_frame>>
         /\ timeline_cmd' = FALSE
    ELSE LET r == update_timeline(sv, ev, slider_to) IN
         /\ start_slider' = sv
         /\ end_slider' = r.end_slider
         /\ start_frame' = r.start_frame
         /\ end_frame' = r.end_frame
         /\ timeline_cmd' = r.changed

\* the values a user drags a slider to
SliderInputs == 0..(MaxFrames + 1) \cup {SliderInitTo}

\* the user moves the start slider
MoveStartSlider(v) ==
    /\ v \in 0..slider_to
    /\ v # start_slider
    /\ RunUpdateTimeline(v, end_slider)
    /\ UNCHANGED <<video_path, video_info, frames, slider_to>>
    /\ UNCHANGED <<ex, preview_vars, frame_it, edit_vars, info_text, settings_vars, widget_vars, job_vars, batch_vars>>

\* the user moves the end slider
MoveEndSlider(v) ==
    /\ v \in 0..slider_to
    /\ v # end_slider
    /\ RunUpdateTimeline(start_slider, v)
    /\ UNCHANGED <<video_path, video_info, frames, slider_to>>
    /\ UNCHANGED <<ex, preview_vars, frame_it, edit_vars, info_text, settings_vars, widget_vars, job_vars, batch_vars>>

\* the event loop runs the command of a slider the program has changed
TimelineCommand ==
    /\ timeline_cmd
    /\ RunUpdateTimeline(start_slider, end_slider)
    /\ UNCHANGED <<video_path, video_info, frames, slider_to>>
    /\ UNCHANGED <<ex, preview_vars, frame_it, edit_vars, info_text, settings_vars, widget_vars, job_vars, batch_vars>>

\* the mutant of process_video: the preview position is kept across a load
process_video_keeps_index(path) ==
    LET info == get_video_info(path)
        total == info.total_frames
        skip == Max(1, total \div PreviewTarget)
    IN  /\ video_info' = info
        /\ slider_to' = total
        /\ start_slider' = Clamp(start_slider, total)
        /\ end_slider' = total
        /\ timeline_cmd' =
              (timeline_cmd \/ Clamp(start_slider, total) # start_slider
                            \/ total # end_slider)
        /\ start_frame' = 0
        /\ end_frame' = total
        /\ frames' = extract_frames_default(path, skip)
        /\ log_info("interactive")
        /\ UNCHANGED preview_frame_index
        /\ last_dialog' = "video_loaded"

\* GIFMakerV2.process_video for a non-empty path
process_video(path) ==
    LET info == get_video_info(path)
        total == info.total_frames
        skip == Max(1, total \div PreviewTarget)
    IN  /\ video_info' = info
        /\ slider_to' = total
        /\ start_slider' = Clamp(start_slider, total)
        /\ end_slider' = total
        /\ timeline_cmd' =
              (timeline_cmd \/ Clamp(start_slider, total) # start_slider
                            \/ total # end_slider)
        /\ start_frame' = 0
        /\ end_frame' = total
        /\ frames' = extract_frames_default(path, skip)
        /\ log_info("interactive")
        /\ preview_frame_index' = 0
        /\ last_dialog' = "video_loaded"

\* GIFMakerV2.select_video: the file dialog returns a path, or "" when cancelled
SelectVideo(path) ==
    /\ video_path' = path
    /\ IF path.name # ""
       THEN process_video(path)
       ELSE UNCHANGED <<video_info, frames, start_frame, end_frame, start_slider,
                        end_slider, slider_to, timeline_cmd, last_dialog, info_text,
                        preview_frame_index>>
    /\ UNCHANGED <<export_button, progress_value, status_label>>
    /\ UNCHANGED <<preview_running, play_button, preview_timers>>
    /\ UNCHANGED <<ex, frame_it, edit_vars, settings_vars, job_vars, batch_vars>>

NextTimeline ==
    \/ \E path \in Videos \cup {EmptyPath} : SelectVideo(path)
    \/ \E v \in SliderInputs : MoveStartSlider(v)
    \/ \E v \in SliderInputs : MoveEndSlider(v)
    \/ TimelineCommand

SpecTimeline == Init /\ [][NextTimeline]_vars

(* ----------------------------- export_gif ------------------------------ *)

\* int(entry.get()): the texts tried and what int() makes of them; any other
\* text ("abc", "1.5", "") raises ValueError
parse_int(text) ==
    CASE text = "-5" -> [ok |-> TRUE, value |-> 0 - 5]
      [] text = "0" -> [ok |-> TRUE, value |-> 0]
      [] text = "3" -> [ok |-> TRUE, value |-> 3]
      [] text = "10" -> [ok |-> TRUE, value |-> 10]
      [] text = "31" -> [ok |-> TRUE, value |-> 31]
      [] text = "32" -> [ok |-> TRUE, value |-> 32]
      [] text = "256" -> [ok |-> TRUE, value |-> 256]
      [] text = "257" -> [ok |-> TRUE, value |-> 257]
      [] OTHER -> [ok |-> FALSE, value |-> 0]

\* float(entry.get()): a float is kept in tenths; float("nan") is a float
\* that is neither <= 0 nor > 0; any other text raises ValueError
parse_float(text) ==
    CASE text = "-1" -> [ok |-> TRUE, nan |-> FALSE, tenths |-> 0 - 10]
      [] text = "0" -> [ok |-> TRUE, nan |-> FALSE, tenths |-> 0]
      [] text = "0.5" -> [ok |-> TRUE, nan |-> FALSE, tenths |-> 5]
      [] text = "1" -> [ok |-> TRUE, nan |-> FALSE, tenths |-> 10]
      [] text = "nan" -> [ok |-> TRUE, nan |-> TRUE, tenths |-> 0]
      [] OTHER -> [ok |-> FALSE, nan |-> FALSE, tenths |-> 0]

\* x <= 0 and x > 0 on floats: both are False for NaN
FloatLE0(x) == ~x.nan /\ x.tenths <= 0
FloatGT0(x) == ~x.nan /\ x.tenths > 0

\* the texts typed into the three entries
FpsTexts == {"abc", "0", "10"}
ScaleTexts == {"abc", "0", "0.5", "nan"}
ColorsTexts == {"31", "256", "257"}

\* export_gif: the try block that reads and checks the three entries
validate(fps_text, scale_text, colors_text) ==
    LET fps == parse_int(fps_text)
        scale == parse_float(scale_text)
        colors == parse_int(colors_text)
    IN  IF ~fps.ok \/ ~scale.ok \/ ~colors.ok THEN "invalid_numeric"
        ELSE IF fps.value <= 0 \/ FloatLE0(scale)
                \/ colors.value < MinColors \/ colors.value > MaxColors
             THEN "invalid_settings"
        ELSE "ok"

\* what extract_frames is called with at lines 995-1000
Selection ==
    [video_path |-> video_path, start_frame |-> start_frame,
     end_frame |-> end_frame, skip |-> skip_frames_var]

\* everything the worker reads from the session (lines 995-1003, 1013-1061
\* and 1096-1115), with the values of this moment
SessionSnapshot ==
    [selection |-> Selection, reverse |-> reverse_var, settings |-> LiveSettings,
     format |-> format_var]

\* threading.Thread(target=self._export_worker, args=(output_path, fps, scale, colors))
\* the locals of a worker that has just been started.  `extracted', `reverse'
\* and `encoder_input' record what the worker read and what it handed on,
\* `raised' where an exception was raised, `frame_failed' that a step of the
\* frame loop has raised, `selection' the video, frame range and frame skip
\* extract_frames was called with, and `at_start' the session as it was when
\* the thread was started
NewWorker(output_path, fps, scale, colors) ==
    [pc |-> "extract", output_path |-> output_path, fps |-> fps, scale |-> scale,
     colors |-> colors, frames |-> <<>>, extracted |-> <<>>, reverse |-> FALSE,
     output_frames |-> <<>>, i |-> 0, total |-> 0,
     e_bound |-> FALSE, raised |-> "no", frame_failed |-> FALSE,
     encoder_called |-> FALSE, encoder_input |-> <<>>,
     selection |-> Selection, at_start |-> SessionSnapshot]

\* the export_gif handler: it runs for the Export button (only while the
\* button is enabled) and for the Ctrl+E binding (always)
ExportGif(trigger, fps_text, scale_text, colors_text, output_path) ==
    /\ trigger = "button" => export_button = "normal"
    /\ Len(workers) < MaxJobs
    /\ IF frames = <<>>
       THEN /\ last_dialog' = "load_video_first"
            /\ UNCHANGED <<export_button, progress_value, status_label, job_vars>>
       ELSE IF validate(fps_text, scale_text, colors_text) # "ok"
       THEN /\ last_dialog' = validate(fps_text, scale_text, colors_text)
            /\ UNCHANGED <<export_button, progress_value, status_label, job_vars>>
       ELSE IF output_path = ""
       THEN UNCHANGED <<widget_vars, job_vars>>
       ELSE /\ progress_value' = 0
            /\ export_button' = "disabled"
            /\ status_label' = StatusText("Exporting...")
            /\ workers' = Append(workers,
                                 NewWorker(output_path, parse_int(fps_text).value,
                                           parse_float(scale_text),
                                           parse_int(colors_text).value))
            /\ delivered' = Append(delivered, <<>>)
            /\ UNCHANGED <<last_dialog, after_queue, files>>
    /\ UNCHANGED <<ex, preview_vars, frame_it, edit_vars, info_text, timeline_vars, settings_vars, batch_vars>>

\* the user toggles the Reverse Playback checkbox
ToggleReverse ==
    /\ reverse_var' = ~reverse_var
    /\ UNCHANGED <<ex, preview_vars, frame_it, edit_vars, info_text, timeline_vars, skip_frames_var, widget_vars, job_vars, batch_vars>>

\* the user sets the frame-skip spinbox
SetSkip(k) ==
    /\ k # skip_frames_var
    /\ skip_frames_var' = k
    /\ UNCHANGED <<ex, preview_vars, frame_it, edit_vars, info_text, timeline_vars, reverse_var, widget_vars, job_vars, batch_vars>>

\* GIFMakerV2.clear_watermark, for a session that has a watermark
ClearWatermark ==
    /\ watermark_path # NoWatermark
    /\ watermark_path' = NoWatermark
    /\ log_info("interactive")
    /\ UNCHANGED <<ex, preview_vars, frame_it, crop_start, crop_coords, filters, text_overlays,
                   format_var, dither_var, timeline_vars, settings_vars, widget_vars, job_vars,
                   batch_vars>>

(* --------------------------- _export_worker ---------------------------- *)

\* a callback handed to self.after(0, ...) by export job j
Callback(j, kind, completed, total, value) ==
    [src |-> "export", job |-> j, kind |-> kind,
     completed |-> completed, total |-> total, value |-> value]

\* the size of the frames cap.read() delivers, a size for which the crop
\* scale factors w / 700 and h / 400 are exact floats
frame_shape == [w |-> 1400, h |-> 800]

\* the colour of the frame at a source position
frame_pixel(frame) ==
    CASE frame % 3 = 0 -> <<200, 100, 50>>
      [] frame % 3 = 1 -> <<90, 90, 90>>
      [] OTHER -> <<255, 255, 255>>

\* lines 1013-1082: the processed form of a frame for worker w, with the
\* session read as it is now: the frame's origin, the image after the last
\* step, the steps that changed it, the crop box and the settings used
Processed(frame, w) ==
    LET r == RunStages(StartFrame(frame, frame_shape.w, frame_shape.h,
                                  frame_pixel(frame), w.scale, w.colors),
                       LiveSettings)
    IN  [src |-> frame, img |-> r.img, ops |-> r.ops, box |-> r.box,
         swallowed |-> r.swallowed, settings |-> LiveSettings]

\* int((i + 1) / total * 100)
Percent(completed, total) == (completed * 100) \div total

\* except Exception as e: log the error and schedule the error box; the name
\* e stays bound until the except block is left
Raise(w, where) == [w EXCEPT !.pc = "except", !.e_bound = TRUE, !.raised = where]

ErrorCallback(j) == Callback(j, "error", 0, 0, 0)

\* lines 990-1001: log the start of the export on the worker thread, read
\* the session and extract the selected frames
WExtract(j) ==
    /\ workers[j].pc = "extract"
    /\ log_info("export_worker")
    /\ LET fr == extract_frames(video_path, start_frame, end_frame, skip_frames_var) IN
       workers' = [workers EXCEPT ![j].pc = "reverse", ![j].frames = fr,
                                  ![j].extracted = fr, ![j].selection = Selection]
    /\ UNCHANGED <<ex, preview_vars, frame_it, edit_vars, timeline_vars, settings_vars, widget_vars, batch_vars,
                   after_queue, delivered, files>>

\* the mutant of ApplyReverse: the sequence is never reversed
ApplyReverseNever(fr, reverse) == fr

\* lines 1003-1004: if self.reverse_var.get(): frames = frames[::-1]
ApplyReverse(fr, reverse) == IF reverse THEN Reverse(fr) ELSE fr

\* lines 1003-1009: reverse, log the number of frames, total = len(frames)
WReverse(j) ==
    /\ workers[j].pc = "reverse"
    /\ log_info("export_worker")
    /\ LET fr == ApplyReverse(workers[j].frames, reverse_var) IN
       workers' = [workers EXCEPT ![j].pc = IF Len(fr) = 0 THEN "save" ELSE "frames",
                                  ![j].frames = fr, ![j].reverse = reverse_var,
                                  ![j].total = Len(fr)]
    /\ UNCHANGED <<ex, preview_vars, frame_it, edit_vars, timeline_vars, settings_vars, widget_vars, batch_vars,
                   after_queue, delivered, files>>

\* the mutant of FrameDone: a raising frame is skipped and the loop goes on
FrameDoneSkipFailed(w, j, ok) ==
    LET n == w.i + 1 IN
    [worker |-> [w EXCEPT !.i = n,
                          !.output_frames =
                              IF ok THEN Append(@, Processed(w.frames[n], w)) ELSE @,
                          !.pc = IF n = w.total THEN "save" ELSE "frames"],
     callbacks |-> IF ok
                   THEN <<Callback(j, "progress", 0, 0, Percent(n, w.total)),
                          Callback(j, "status", n, w.total, 0)>>
                   ELSE <<>>]

\* the mutant of FrameDone: the status callback carries i instead of i + 1
FrameDoneStaleCounter(w, j, ok) ==
    LET n == w.i + 1 IN
    IF ok
    THEN [worker |-> [w EXCEPT !.i = n,
                               !.output_frames = Append(@, Processed(w.frames[n], w)),
                               !.pc = IF n = w.total THEN "save" ELSE "frames"],
          callbacks |-> <<Callback(j, "progress", 0, 0, Percent(n, w.total)),
                          Callback(j, "status", w.i, w.total, 0)>>]
    ELSE [worker |-> Raise(w, "frame"), callbacks |-> <<ErrorCallback(j)>>]

\* lines 1011-1088: one iteration of the frame loop for frame i; ok is
\* whether the filter, crop, resize, overlay and quantize steps all return
FrameDone(w, j, ok) ==
    LET n == w.i + 1 IN
    IF ok
    THEN [worker |-> [w EXCEPT !.i = n,
                               !.output_frames = Append(@, Processed(w.frames[n], w)),
                               !.pc = IF n = w.total THEN "save" ELSE "frames"],
          callbacks |-> <<Callback(j, "progress", 0, 0, Percent(n, w.total)),
                          Callback(j, "status", n, w.total, 0)>>]
    ELSE [worker |-> Raise(w, "frame"), callbacks |-> <<ErrorCallback(j)>>]

\* a frame is processed; int(img.width * scale) raises for a NaN scale
WFrame(j, ok) ==
    /\ workers[j].pc = "frames"
    /\ ok => ~workers[j].scale.nan
    /\ LET r == FrameDone(workers[j], j, ok) IN
       /\ workers' = [workers EXCEPT ![j] = [r.worker EXCEPT !.frame_failed = @ \/ ~ok]]
       /\ after_queue' = after_queue \o r.callbacks
    /\ IF ok THEN UNCHANGED info_text ELSE log_info("export_worker")
    /\ UNCHANGED <<ex, preview_vars, frame_it, edit_vars, timeline_vars, settings_vars, widget_vars, batch_vars,
                   delivered, files>>

\* the mutant of Encoded: the frame duration is rounded up
EncodedCeilDuration(w, j, prev) ==
    [exists |-> TRUE, frames |-> w.output_frames,
     duration |-> (1000 + w.fps - 1) \div w.fps,
     written_by |-> prev.written_by \cup {j}, format |-> format_var, loop |-> 0,
     dither |-> IF format_var \in {"WebP", "APNG"} THEN "" ELSE dither_var]

\* lines 1094-1124: the encoder's output for a sequence of frames, written by
\* job j over the file prev at the same path: duration = 1000 // fps for
\* every frame, loop=0 in each of the three branches, the format read from
\* format_var at this moment, the dither argument read from dither_var in the
\* GIF branch only; written_by records the jobs that wrote there
Encoded(w, j, prev) ==
    [exists |-> TRUE, frames |-> w.output_frames, duration |-> 1000 \div w.fps,
     written_by |-> prev.written_by \cup {j}, format |-> format_var, loop |-> 0,
     dither |-> IF format_var \in {"WebP", "APNG"} THEN "" ELSE dither_var]

\* lines 1090-1134: "Saving file...", output_frames[0].save(...), the file's
\* size and the three callbacks of a finished export; ok is whether the file
\* can be written.  output_frames[0] raises IndexError for an empty sequence
SaveDone(w, j, ok) ==
    IF w.output_frames = <<>> \/ ~ok
    THEN [worker |-> Raise(w, "save"), write |-> FALSE,
          callbacks |-> <<Callback(j, "saving", 0, 0, 0), ErrorCallback(j)>>]
    ELSE [worker |-> [w EXCEPT !.pc = "saved", !.encoder_called = TRUE,
                               !.encoder_input = w.output_frames],
          write |-> TRUE,
          callbacks |-> <<Callback(j, "saving", 0, 0, 0),
                          Callback(j, "progress", 0, 0, 100),
                          Callback(j, "complete", 0, 0, 0),
                          Callback(j, "success", 0, 0, 0)>>]

WSave(j, ok) ==
    /\ workers[j].pc = "save"
    /\ log_info("export_worker")
    /\ LET r == SaveDone(workers[j], j, ok) IN
       /\ workers' = [workers EXCEPT ![j] = r.worker]
       /\ after_queue' = after_queue \o r.callbacks
       /\ files' = IF r.write
                   THEN [files EXCEPT ![workers[j].output_path] =
                            Encoded(workers[j], j, files[workers[j].output_path])]
                   ELSE files
    /\ UNCHANGED <<ex, preview_vars, frame_it, edit_vars, timeline_vars, settings_vars, widget_vars, batch_vars, delivered>>

\* the mutant of WFinally: the button's reset is scheduled after a success
\* only
WFinallyOnSuccessOnly(j) ==
    /\ workers[j].pc \in {"except", "saved"}
    /\ workers' = [workers EXCEPT ![j].pc = "done", ![j].e_bound = FALSE]
    /\ after_queue' = after_queue \o
          (IF workers[j].pc = "saved"
           THEN <<Callback(j, "button_normal", 0, 0, 0)>> ELSE <<>>)
          \o <<Callback(j, "progress", 0, 0, 0)>>
    /\ UNCHANGED <<ex, preview_vars, frame_it, edit_vars, info_text, timeline_vars, settings_vars, widget_vars, batch_vars,
                   delivered, files>>

\* lines 1140-1142: the except block (if any) is left, which unbinds e, and
\* the finally block schedules the button's and the progress bar's reset
WFinally(j) ==
    /\ workers[j].pc \in {"except", "saved"}
    /\ workers' = [workers EXCEPT ![j].pc = "done", ![j].e_bound = FALSE]
    /\ after_queue' = after_queue \o <<Callback(j, "button_normal", 0, 0, 0),
                                       Callback(j, "progress", 0, 0, 0)>>
    /\ UNCHANGED <<ex, preview_vars, frame_it, edit_vars, info_text, timeline_vars, settings_vars, widget_vars, batch_vars,
                   delivered, files>>

(* ------------------ the interactive thread's event loop ---------------- *)

\* what the callback cb of an export job does when the event loop runs it.
\* The error box's lambda reads the worker's name e: it shows the box while e
\* is bound and raises NameError (reported by Tk, nothing shown) once the
\* worker has left its except block
RunExportCallback(cb) ==
    /\ progress_value' = IF cb.kind = "progress" THEN cb.value ELSE progress_value
    /\ status_label' =
          CASE cb.kind = "status" ->
                   [text |-> "Processing frame", completed |-> cb.completed,
                    total |-> cb.total]
            [] cb.kind = "saving" -> StatusText("Saving file...")
            [] cb.kind = "complete" -> StatusText("Export complete!")
            [] OTHER -> status_label
    /\ export_button' = IF cb.kind = "button_normal" THEN "normal" ELSE export_button
    /\ last_dialog' =
          CASE cb.kind = "success" -> "export_success"
            [] cb.kind = "error" /\ workers[cb.job].e_bound -> "export_failed"
            [] OTHER -> last_dialog
    /\ delivered' =
          [delivered EXCEPT ![cb.job] =
              Append(@, IF cb.kind = "error" /\ ~workers[cb.job].e_bound
                        THEN [cb EXCEPT !.kind = "error_not_shown"]
                        ELSE cb)]

\* the event loop runs the oldest pending callback of an export job
DeliverExport ==
    /\ after_queue # <<>>
    /\ Head(after_queue).src = "export"
    /\ RunExportCallback(Head(after_queue))
    /\ after_queue' = Tail(after_queue)
    /\ UNCHANGED <<ex, preview_vars, frame_it, edit_vars, info_text, timeline_vars, settings_vars, workers, files, batch_vars>>

(* ---------------------------- _batch_worker ---------------------------- *)

\* the inputs of a batch: two readable videos and a file that cannot be opened
BatchVideos ==
    {[name |-> "a", total |-> 2, readable |-> 2],
     [name |-> "bad", total |-> 0, readable |-> 0]}

RECURSIVE SeqsUpTo(_, _)
SeqsUpTo(S, n) ==
    IF n = 0 THEN {<<>>}
    ELSE LET shorter == SeqsUpTo(S, n - 1) IN
         shorter \cup {Append(q, x) : q \in shorter, x \in S}

\* the non-empty lists of inputs a batch is started with
BatchLists == SeqsUpTo(BatchVideos, MaxBatch) \ {<<>>}

\* threading.Thread(target=self._batch_worker, args=(file_paths, output_dir)):
\* the locals of a batch worker that has just been started; `log' holds the
\* "Saved"/"Failed" lines in the order they were logged
NewBatch(file_paths) ==
    [pc |-> "loop", file_paths |-> file_paths, i |-> 0,
     successful |-> 0, failed |-> 0, log |-> <<>>, written |-> <<>>]

BatchCallback(b, kind, completed, total, value) ==
    [src |-> "batch", job |-> b, kind |-> kind,
     completed |-> completed, total |-> total, value |-> value]

\* the mutant of BatchItem: an input that raises ends the loop
BatchItemAbort(w) ==
    LET n == w.i + 1
        video == w.file_paths[n]
        fr == extract_frames_default(video, BatchSkip)
    IN  IF fr = <<>>
        THEN [w EXCEPT !.i = n, !.failed = @ + 1, !.pc = "finish",
                       !.log = Append(@, [name |-> video.name, ok |-> FALSE])]
        ELSE [w EXCEPT !.i = n, !.successful = @ + 1,
                       !.pc = IF n = Len(w.file_paths) THEN "finish" ELSE "loop",
                       !.written = Append(@, n),
                       !.log = Append(@, [name |-> video.name, ok |-> TRUE])]

\* lines 1173-1208: one iteration of the batch loop.  output_frames[0] raises
\* IndexError when no frame was extracted; the except clause counts and logs it
BatchItem(w) ==
    LET n == w.i + 1
        video == w.file_paths[n]
        fr == extract_frames_default(video, BatchSkip)
    IN  IF fr = <<>>
        THEN [w EXCEPT !.i = n, !.failed = @ + 1,
                       !.pc = IF n = Len(w.file_paths) THEN "finish" ELSE "loop",
                       !.log = Append(@, [name |-> video.name, ok |-> FALSE])]
        ELSE [w EXCEPT !.i = n, !.successful = @ + 1,
                       !.pc = IF n = Len(w.file_paths) THEN "finish" ELSE "loop",
                       !.written = Append(@, n),
                       !.log = Append(@, [name |-> video.name, ok |-> TRUE])]

\* the batch worker b handles its next input
BStep(b) ==
    /\ batches[b].pc = "loop"
    /\ log_info("batch_worker")
    /\ batches' = [batches EXCEPT ![b] = BatchItem(batches[b])]
    /\ after_queue' = Append(after_queue,
                             BatchCallback(b, "batch_status", batches[b].i + 1,
                                           Len(batches[b].file_paths), 0))
    /\ UNCHANGED <<ex, preview_vars, frame_it, edit_vars, timeline_vars, settings_vars, widget_vars, workers,
                   delivered, files, batch_delivered>>

\* lines 1210-1214: "Batch complete!" and the Batch Complete box
BFinish(b) ==
    /\ batches[b].pc = "finish"
    /\ batches' = [batches EXCEPT ![b].pc = "done"]
    /\ after_queue' = after_queue \o
          <<BatchCallback(b, "batch_done", 0, 0, 0),
            BatchCallback(b, "batch_complete", batches[b].successful,
                          batches[b].failed, 0)>>
    /\ UNCHANGED <<ex, preview_vars, frame_it, edit_vars, info_text, timeline_vars, settings_vars, widget_vars, workers,
                   delivered, files, batch_delivered>>

\* the event loop runs the oldest pending callback of a batch job
DeliverBatch ==
    /\ after_queue # <<>>
    /\ Head(after_queue).src = "batch"
    /\ LET cb == Head(after_queue) IN
       /\ status_label' =
             CASE cb.kind = "batch_status" ->
                      [text |-> "Batch: Processing", completed |-> cb.completed,
                       total |-> cb.total]
               [] cb.kind = "batch_done" -> StatusText("Batch complete!")
               [] OTHER -> status_label
       /\ last_dialog' = IF cb.kind = "batch_complete" THEN "batch_complete"
                         ELSE last_dialog
       /\ batch_delivered' = [batch_delivered EXCEPT ![cb.job] = Append(@, cb)]
    /\ after_queue' = Tail(after_queue)
    /\ UNCHANGED <<ex, preview_vars, frame_it, edit_vars, info_text, timeline_vars, settings_vars, export_button, progress_value,
                   workers, delivered, files, batches>>

(* --------------------------- specifications ---------------------------- *)

\* the video opened in the export session
SessionVideos == {Container(1, 1)}

\* the export session: a video is opened (or the file dialog cancelled) and
\* exports are started, by the button or by Ctrl+E, while workers and the
\* event loop run
Next ==
    \/ \E path \in SessionVideos \cup {EmptyPath} : SelectVideo(path)
    \/ TimelineCommand
    \/ \E trigger \in {"button", "shortcut"}, ft \in FpsTexts, st \in ScaleTexts,
          ct \in ColorsTexts, out \in OutputPaths \cup {""} :
          ExportGif(trigger, ft, st, ct, out)
    \/ \E j \in 1..Len(workers) : WExtract(j)
    \/ \E j \in 1..Len(workers) : WReverse(j)
    \/ \E j \in 1..Len(workers), ok \in BOOLEAN : WFrame(j, ok)
    \/ \E j \in 1..Len(workers), ok \in BOOLEAN : WSave(j, ok)
    \/ \E j \in 1..Len(workers) : WFinally(j)
    \/ DeliverExport

Spec == Init /\ [][Next]_vars

\* the frame ranges update_timeline and process_video leave for a video of
\* `total' frames: start < end <= total, (0, total), and (total, total + 1)
TimelineRanges(total) ==
    {<<s, e>> \in (0..total) \X (0..(total + 1)) :
        \/ s < e /\ e <= total
        \/ s = 0 /\ e = total
        \/ s = total /\ e = total + 1}

\* watermark files: an image, and a path that Image.open cannot load
Watermarks ==
    {[name |-> "logo.png", loadable |-> TRUE],
     [name |-> "missing.png", loadable |-> FALSE]}

\* a text overlay as add_text_overlay appends it
Overlay(text, position) == [text |-> text, position |-> position]

\* the sessions an export is followed in: the entries export_gif accepts
\* (fps, scale, colors) and the editing state of the session
WorkerSessions ==
    {[fps |-> "10", scale |-> "0.5", colors |-> "256", format |-> "GIF",
      crop |-> NoCrop, watermark |-> NoWatermark, overlays |-> <<>>,
      filters |-> DefaultFilters],
     [fps |-> "3", scale |-> "0.5", colors |-> "32", format |-> "WebP",
      crop |-> Region(30, 40, 90, 100),
      watermark |-> [name |-> "logo.png", loadable |-> TRUE],
      overlays |-> <<Overlay("title", "bottom")>>,
      filters |-> [DefaultFilters EXCEPT !.grayscale = TRUE, !.sepia = TRUE]],
     [fps |-> "10", scale |-> "nan", colors |-> "256", format |-> "GIF",
      crop |-> NoCrop, watermark |-> NoWatermark, overlays |-> <<>>,
      filters |-> DefaultFilters],
     [fps |-> "3", scale |-> "1", colors |-> "32", format |-> "APNG",
      crop |-> Region(30, 40, 90, 100),
      watermark |-> [name |-> "missing.png", loadable |-> FALSE],
      overlays |-> <<>>,
      filters |-> [DefaultFilters EXCEPT !.rotation = 90, !.brightness = 15]]}

\* one export worker: the session right after export_gif has started it, for
\* any loaded video with preview frames, any frame range of the timeline, any
\* frame skip and reverse flag, and any of the sessions above
InitWorker ==
    /\ ex = ExIdle
    /\ frame_it = FrIdle
    /\ video_path \in {v \in Videos : extract_frames_default(v, 1) # <<>>}
    /\ video_info = get_video_info(video_path)
    /\ frames = extract_frames_default(video_path, 1)
    /\ start_frame \in 0..video_path.total
    /\ end_frame \in 0..(video_path.total + 1)
    /\ <<start_frame, end_frame>> \in TimelineRanges(video_path.total)
    /\ start_slider = start_frame
    /\ end_slider = Clamp(end_frame, video_path.total)
    /\ slider_to = video_path.total
    /\ timeline_cmd = FALSE
    /\ skip_frames_var \in 1..MaxSkip
    /\ reverse_var \in BOOLEAN
    /\ InitPreview
    /\ crop_start = NoPoint
    /\ \E ws \in WorkerSessions :
          /\ crop_coords = ws.crop
          /\ watermark_path = ws.watermark
          /\ filters = ws.filters
          /\ text_overlays = ws.overlays
          /\ format_var = ws.format
          /\ dither_var = "FLOYDSTEINBERG"
          /\ workers = <<NewWorker("out.gif", parse_int(ws.fps).value,
                                   parse_float(ws.scale),
                                   parse_int(ws.colors).value)>>
    /\ info_text = {"interactive"}
    /\ export_button = "disabled"
    /\ progress_value = 0
    /\ status_label = StatusText("Exporting...")
    /\ last_dialog = "video_loaded"
    /\ batches = <<>>
    /\ after_queue = <<>>
    /\ delivered = <<<<>>>>
    /\ batch_delivered = <<>>
    /\ files = [p \in OutputPaths |-> NoFile]

\* the worker and the event loop run while the user changes the reverse flag
\* and the frame skip
NextWorker ==
    \/ ToggleReverse
    \/ \E k \in 1..MaxSkip : SetSkip(k)
    \/ \E j \in 1..Len(workers) : WExtract(j)
    \/ \E j \in 1..Len(workers) : WReverse(j)
    \/ \E j \in 1..Len(workers), ok \in BOOLEAN : WFrame(j, ok)
    \/ \E j \in 1..Len(workers), ok \in BOOLEAN : WSave(j, ok)
    \/ \E j \in 1..Len(workers) : WFinally(j)
    \/ DeliverExport

SpecWorker == InitWorker /\ [][NextWorker]_vars

\* a step of the export worker thread j
WorkerStep(j) ==
    \/ WExtract(j)
    \/ WReverse(j)
    \/ \E ok \in BOOLEAN : WFrame(j, ok)
    \/ \E ok \in BOOLEAN : WSave(j, ok)
    \/ WFinally(j)

\* the worker and the event loop alone
NextRun ==
    \/ \E j \in 1..Len(workers) : WorkerStep(j)
    \/ DeliverExport

\* the export worker once started, with a scheduler that keeps running the
\* worker thread and an event loop that keeps running the callbacks pending
SpecRun ==
    /\ InitWorker
    /\ [][NextRun]_vars
    /\ WF_vars(\E j \in 1..Len(workers) : WorkerStep(j))
    /\ WF_vars(DeliverExport)

\* the same, while the user also clears the watermark during the export
NextLive == NextWorker \/ ClearWatermark

SpecLive == InitWorker /\ [][NextLive]_vars

(* ------------------ one frame through the frame loop ------------------ *)

\* lines 538-540: the values of the Dithering Method combobox
DitherModes == {"NONE", "FLOYDSTEINBERG"}

\* the settings of the Effects tab a frame is followed under
FrameFilters ==
    {[rotation |-> r, flip_h |-> fh, flip_v |-> fv, brightness |-> b,
      contrast |-> c, saturation |-> sa, grayscale |-> g, sepia |-> se] :
        r \in {0, 90}, fh \in BOOLEAN, fv \in BOOLEAN, b \in {10, 15},
        c \in {10, 5}, sa \in {10, 0}, g \in BOOLEAN, se \in BOOLEAN}

\* one iteration of the frame loop, for any frame and any settings: the
\* session is as the tabs left it, and the loop is about to call apply_filters
InitFrame ==
    /\ ex = ExIdle
    /\ video_path = Container(1, 1)
    /\ video_info = get_video_info(video_path)
    /\ frames = extract_frames_default(video_path, 1)
    /\ start_frame = 0
    /\ end_frame = video_path.total
    /\ start_slider = 0
    /\ end_slider = video_path.total
    /\ slider_to = video_path.total
    /\ timeline_cmd = FALSE
    /\ skip_frames_var = 1
    /\ reverse_var = FALSE
    /\ InitPreview
    /\ crop_start = NoPoint
    /\ crop_coords \in {NoCrop, Region(30, 40, 90, 100)}
    /\ watermark_path \in Watermarks \cup {NoWatermark}
    /\ filters \in FrameFilters
    /\ text_overlays \in {<<>>, <<Overlay("hi", "bottom")>>}
    /\ format_var = "GIF"
    /\ dither_var \in DitherModes
    /\ info_text = {"interactive"}
    /\ export_button = "disabled"
    /\ progress_value = 0
    /\ status_label = StatusText("Exporting...")
    /\ last_dialog = "video_loaded"
    /\ workers = <<>>
    /\ batches = <<>>
    /\ after_queue = <<>>
    /\ delivered = <<>>
    /\ batch_delivered = <<>>
    /\ files = [p \in OutputPaths |-> NoFile]
    /\ \E frame \in 0..1, st \in {"0.5", "nan"}, ct \in {"32", "256"} :
          frame_it = StartFrame(frame, frame_shape.w, frame_shape.h,
                                frame_pixel(frame), parse_float(st),
                                parse_int(ct).value)

\* the frame loop takes the frame through its next step
FrameStage ==
    /\ frame_it.pc \notin {"done", "raised"}
    /\ frame_it' = StageStep(frame_it, LiveSettings)
    /\ UNCHANGED <<ex, preview_vars, edit_vars, info_text, timeline_vars, settings_vars,
                   widget_vars, job_vars, batch_vars>>

NextFrame == FrameStage

SpecFrame == InitFrame /\ [][NextFrame]_vars

(* ---------------------------- text overlays ---------------------------- *)

\* what is typed into the text entry
OverlayTexts == {"", "  ", "a", " b "}

\* str.strip() on the texts typed
strip(text) ==
    CASE text = "  " -> ""
      [] text = " b " -> "b"
      [] OTHER -> text

\* the values of the position combobox used
OverlayPositions == {"bottom", "top"}

\* the mutant of remove_at: the entry deleted is the last one
remove_last(list, index) == SubSeq(list, 1, Len(list) - 1)

\* del list[index], index counted from 0
remove_at(list, index) ==
    SubSeq(list, 1, index) \o SubSeq(list, index + 2, Len(list))

\* lines 839-856: the Add Text button.  A text that is empty once stripped
\* gives the "Please enter text" warning and nothing else
AddTextOverlay(text, position) ==
    /\ Len(text_overlays) < MaxOverlays
    /\ IF strip(text) = ""
       THEN /\ last_dialog' = "enter_text"
            /\ UNCHANGED <<text_overlays, info_text>>
       ELSE /\ text_overlays' = Append(text_overlays, Overlay(strip(text), position))
            /\ log_info("interactive")
            /\ UNCHANGED last_dialog
    /\ UNCHANGED <<crop_start, crop_coords, watermark_path, filters, format_var, dither_var>>
    /\ UNCHANGED <<ex, preview_vars, frame_it, timeline_vars, settings_vars, export_button,
                   progress_value, status_label, job_vars, batch_vars>>

\* lines 877-885: the Remove Selected button; selection is what
\* overlay_listbox.curselection() returns, () or (index,)
RemoveOverlay(selection) ==
    /\ IF selection # <<>>
       THEN /\ text_overlays' = remove_at(text_overlays, selection[1])
            /\ log_info("interactive")
       ELSE UNCHANGED <<text_overlays, info_text>>
    /\ UNCHANGED <<crop_start, crop_coords, watermark_path, filters, format_var, dither_var>>
    /\ UNCHANGED <<ex, preview_vars, frame_it, timeline_vars, settings_vars,
                   widget_vars, job_vars, batch_vars>>

\* lines 1013-1082: the frame loop's body for one frame of an export made
\* with scale 0.5 and 256 colors
ExportFrame(frame) ==
    /\ frame_it' = RunStages(StartFrame(frame, frame_shape.w, frame_shape.h,
                                        frame_pixel(frame), parse_float("0.5"),
                                        parse_int("256").value),
                             LiveSettings)
    /\ UNCHANGED <<ex, preview_vars, edit_vars, info_text, timeline_vars, settings_vars,
                   widget_vars, job_vars, batch_vars>>

\* the Text tab's two buttons, and frames exported with the list as it is
NextOverlay ==
    \/ \E text \in OverlayTexts, position \in OverlayPositions :
          AddTextOverlay(text, position)
    \/ \E selection \in {<<>>} \cup {<<index>> : index \in 0..(Len(text_overlays) - 1)} :
          RemoveOverlay(selection)
    \/ ExportFrame(0)

SpecOverlay == Init /\ [][NextOverlay]_vars

(* --------------------------- preview playback -------------------------- *)

\* lines 657-678: the body of animate_preview once its test has passed: the
\* frame at preview_frame_index is displayed (IndexError past the end, which
\* ends the callback), the position advances and the next call is scheduled
AnimateBody(timers) ==
    IF preview_frame_index < Len(frames)
    THEN /\ preview_frame_index' = (preview_frame_index + 1) % Len(frames)
         /\ preview_timers' = timers + 1
    ELSE /\ preview_timers' = timers
         /\ UNCHANGED preview_frame_index

\* lines 642-653: the play button, or the space key
TogglePreview ==
    /\ preview_timers < MaxTimers
    /\ IF frames = <<>>
       THEN UNCHANGED preview_vars
       ELSE /\ preview_running' = ~preview_running
            /\ IF ~preview_running
               THEN /\ play_button' = "Pause"
                    /\ AnimateBody(preview_timers)
               ELSE /\ play_button' = "Play"
                    /\ UNCHANGED <<preview_frame_index, preview_timers>>
    /\ UNCHANGED <<ex, frame_it, edit_vars, info_text, timeline_vars, settings_vars,
                   widget_vars, job_vars, batch_vars>>

\* lines 655-678: a pending animate_preview callback is run by the event loop
AnimatePreview ==
    /\ preview_timers > 0
    /\ IF ~preview_running \/ frames = <<>>
       THEN /\ preview_timers' = preview_timers - 1
            /\ UNCHANGED preview_frame_index
       ELSE AnimateBody(preview_timers - 1)
    /\ UNCHANGED <<preview_running, play_button>>
    /\ UNCHANGED <<ex, frame_it, edit_vars, info_text, timeline_vars, settings_vars,
                   widget_vars, job_vars, batch_vars>>

\* lines 750-754: the First button
GotoFirstFrame ==
    /\ preview_frame_index' = IF frames # <<>> THEN 0 ELSE preview_frame_index
    /\ UNCHANGED <<preview_running, play_button, preview_timers>>
    /\ UNCHANGED <<ex, frame_it, edit_vars, info_text, timeline_vars, settings_vars,
                   widget_vars, job_vars, batch_vars>>

\* lines 756-760: the Last button
GotoLastFrame ==
    /\ preview_frame_index' = IF frames # <<>> THEN Len(frames) - 1
                              ELSE preview_frame_index
    /\ UNCHANGED <<preview_running, play_button, preview_timers>>
    /\ UNCHANGED <<ex, frame_it, edit_vars, info_text, timeline_vars, settings_vars,
                   widget_vars, job_vars, batch_vars>>

\* videos are loaded, and the dialog cancelled, while the preview is played,
\* paused and moved
NextPreview ==
    \/ \E path \in Videos \cup {EmptyPath} : SelectVideo(path)
    \/ TogglePreview
    \/ AnimatePreview
    \/ GotoFirstFrame
    \/ GotoLastFrame

SpecPreview == Init /\ [][NextPreview]_vars

(* --------------------------- crop selection ---------------------------- *)

\* line 788: a drag is committed when both of its spans exceed this
MinCropSpan == 20

\* the canvas positions of the mouse events followed
CropXs == {0, 20, 21, 50}
CropYs == {0, 20, 21, 50}

\* the mutant of end_crop: a drag is committed whatever its size
end_crop_any_size(start, coords, x, y) ==
    Region(Min(start.x, x), Min(start.y, y), Max(start.x, x), Max(start.y, y))

\* lines 778-790: self.crop_coords after the button is released at (x, y) of
\* a drag started at `start'
end_crop(start, coords, x, y) ==
    LET x1 == IF start.x > x THEN x ELSE start.x
        x2 == IF start.x > x THEN start.x ELSE x
        y1 == IF start.y > y THEN y ELSE start.y
        y2 == IF start.y > y THEN start.y ELSE y
    IN  IF x2 - x1 > MinCropSpan /\ y2 - y1 > MinCropSpan
        THEN Region(x1, y1, x2, y2)
        ELSE coords

\* lines 762-764: <Button-1> on the canvas
StartCrop(x, y) ==
    /\ crop_start' = [set |-> TRUE, x |-> x, y |-> y]
    /\ UNCHANGED <<crop_coords, watermark_path, filters, text_overlays, format_var, dither_var>>
    /\ UNCHANGED <<ex, preview_vars, frame_it, info_text, timeline_vars, settings_vars,
                   widget_vars, job_vars, batch_vars>>

\* lines 775-792: <ButtonRelease-1> on the canvas; without a drag in progress
\* nothing is done, and a committed drag is logged
EndCrop(x, y) ==
    /\ IF crop_start.set
       THEN /\ crop_coords' = end_crop(crop_start, crop_coords, x, y)
            /\ crop_start' = NoPoint
            /\ IF end_crop(crop_start, NoCrop, x, y) # NoCrop
               THEN log_info("interactive")
               ELSE UNCHANGED info_text
       ELSE UNCHANGED <<crop_start, crop_coords, info_text>>
    /\ UNCHANGED <<watermark_path, filters, text_overlays, format_var, dither_var>>
    /\ UNCHANGED <<ex, preview_vars, frame_it, timeline_vars, settings_vars,
                   widget_vars, job_vars, batch_vars>>

\* lines 794-799: the Reset Crop button
ResetCrop ==
    /\ crop_coords' = NoCrop
    /\ log_info("interactive")
    /\ UNCHANGED <<crop_start, watermark_path, filters, text_overlays, format_var, dither_var>>
    /\ UNCHANGED <<ex, preview_vars, frame_it, timeline_vars, settings_vars,
                   widget_vars, job_vars, batch_vars>>

\* the mouse on the canvas and the Reset Crop button, in any order
NextCrop ==
    \/ \E x \in CropXs, y \in CropYs : StartCrop(x, y)
    \/ \E x \in CropXs, y \in CropYs : EndCrop(x, y)
    \/ ResetCrop

SpecCrop == Init /\ [][NextCrop]_vars

\* one batch worker, started with any list of inputs
InitBatch ==
    /\ ex = ExIdle
    /\ frame_it = FrIdle
    /\ video_path = EmptyPath
    /\ video_info = NoInfo
    /\ frames = <<>>
    /\ start_frame = 0
    /\ end_frame = 0
    /\ start_slider = 0
    /\ end_slider = SliderInitTo
    /\ slider_to = SliderInitTo
    /\ timeline_cmd = FALSE
    /\ skip_frames_var = 1
    /\ reverse_var = FALSE
    /\ InitPreview
    /\ crop_start = NoPoint
    /\ crop_coords = NoCrop
    /\ watermark_path = NoWatermark
    /\ filters = DefaultFilters
    /\ text_overlays = <<>>
    /\ format_var = "GIF"
    /\ dither_var = "FLOYDSTEINBERG"
    /\ info_text = {"interactive"}
    /\ export_button = "normal"
    /\ progress_value = 0
    /\ status_label = StatusText("Ready")
    /\ last_dialog = "batch_started"
    /\ workers = <<>>
    /\ batches \in {<<NewBatch(paths)>> : paths \in BatchLists}
    /\ after_queue = <<>>
    /\ delivered = <<>>
    /\ batch_delivered = <<<<>>>>
    /\ files = [p \in OutputPaths |-> NoFile]

NextBatch ==
    \/ \E b \in 1..Len(batches) : BStep(b)
    \/ \E b \in 1..Len(batches) : BFinish(b)
    \/ DeliverBatch

SpecBatch == InitBatch /\ [][NextBatch]_vars

(* ---------------------------- batch_process ---------------------------- *)

\* the output directories the directory dialog returns; "" when cancelled
OutputDirs == {"", "out"}

\* lines 1144-1166: the Batch Process command.  Either dialog cancelled
\* returns; otherwise the start is logged, the Batch Process box shown and a
\* _batch_worker thread started.  Nothing is tested before the thread is
\* started: neither the export button nor a batch already running.
BatchProcess(file_paths, output_dir) ==
    /\ Len(batches) < MaxJobs
    /\ IF file_paths = <<>> \/ output_dir = ""
       THEN UNCHANGED <<info_text, last_dialog, batches, batch_delivered>>
       ELSE /\ log_info("interactive")
            /\ last_dialog' = "batch_started"
            /\ batches' = Append(batches, NewBatch(file_paths))
            /\ batch_delivered' = Append(batch_delivered, <<>>)
    /\ UNCHANGED <<ex, preview_vars, frame_it, edit_vars, timeline_vars, settings_vars,
                   export_button, progress_value, status_label,
                   workers, after_queue, delivered, files>>

\* the lists of inputs the file dialog returns: empty when cancelled
DialogLists == {paths \in BatchLists : Len(paths) <= MaxJobs} \cup {<<>>}

\* the Batch Process command given while batch workers and the event loop run
NextJobs ==
    \/ \E paths \in DialogLists, dir \in OutputDirs : BatchProcess(paths, dir)
    \/ NextBatch

SpecJobs == Init /\ [][NextJobs]_vars

(* ------------------------------- claims -------------------------------- *)

\* the export workers that have been started and have not finished
ActiveWorkers == {j \in 1..Len(workers) : workers[j].pc # "done"}

\* C1: at most one export worker is active at any time: a request to start
\* an export while one is in flight starts no second worker.
C1_AtMostOneActiveExport == Cardinality(ActiveWorkers) <= 1

\* a message box that reports the end of an export job to the user
IsTerminal(e) == e.kind \in {"success", "error"}

TerminalCount(j) == Len(SelectSeq(delivered[j], IsTerminal))

\* job j still has a callback waiting in the event loop
PendingExport(j) ==
    \E p \in 1..Len(after_queue) :
        after_queue[p].src = "export" /\ after_queue[p].job = j

PendingBatch(b) ==
    \E p \in 1..Len(after_queue) :
        after_queue[p].src = "batch" /\ after_queue[p].job = b

IsBatchComplete(e) == e.kind = "batch_complete"

BatchCompleteCount(b) == Len(SelectSeq(batch_delivered[b], IsBatchComplete))

\* C2: every job reports its terminal state exactly once: an export never
\* shows both the success and the failure box, and once its worker has
\* finished and all its callbacks have run exactly one of the two has been
\* shown; a finished batch has shown exactly one Batch Complete box.
C2_TerminalReportedExactlyOnce ==
    /\ \A j \in 1..Len(workers) :
          /\ TerminalCount(j) <= 1
          /\ (workers[j].pc = "done" /\ ~PendingExport(j)) => TerminalCount(j) = 1
    /\ \A b \in 1..Len(batches) :
          /\ BatchCompleteCount(b) <= 1
          /\ (batches[b].pc = "done" /\ ~PendingBatch(b)) => BatchCompleteCount(b) = 1

IsStatus(e) == e.kind = "status"

\* the "Processing frame i/total" events of job j that have been delivered
StatusEvents(j) == SelectSeq(delivered[j], IsStatus)

\* the progress events carry completed = 1, 2, ... in order, each with
\* total = N, and all N of them precede the success box
ProgressInOrder(j) ==
    /\ Len(StatusEvents(j)) <= workers[j].total
    /\ \A k \in 1..Len(StatusEvents(j)) :
          /\ StatusEvents(j)[k].completed = k
          /\ StatusEvents(j)[k].total = workers[j].total
    /\ (\E p \in 1..Len(delivered[j]) : delivered[j][p].kind = "success")
          => Len(StatusEvents(j)) = workers[j].total

IsPrefix(s, t) == Len(s) <= Len(t) /\ \A k \in 1..Len(s) : s[k] = t[k]

CleanupOf(j) ==
    <<Callback(j, "button_normal", 0, 0, 0), Callback(j, "progress", 0, 0, 0)>>

C4_WorkerOnlyWithSettingsInRange ==
    \A j \in 1..Len(workers) :
        /\ workers[j].fps > 0
        /\ FloatGT0(workers[j].scale)
        /\ workers[j].colors >= MinColors
        /\ workers[j].colors <= MaxColors

\* C5: once a video is loaded, start_frame < end_frame <= total_frames after
\* any sequence of loads and slider changes.
C5_FrameRangeInvariant ==
    (video_info.set /\ frames # <<>>)
        => (start_frame < end_frame /\ end_frame <= video_info.total_frames)

\* ceil(n / k) for n >= 0 and k >= 1
CeilDiv(n, k) == (n + k - 1) \div k

\* the positions start, start + k, start + 2k, ... below end
Strided(start, end, k) ==
    [n \in 1..CeilDiv(end - start, k) |-> start + (n - 1) * k]

\* C6: for a container that holds at least end_frame frames, extract_frames
\* returns exactly the frames at start, start + k, start + 2k, ... below
\* end_frame, in increasing order, ceil((end - start) / k) of them, and has
\* decoded every frame of the range to do so.
C6_ExtractReturnsStridedRange ==
    (ex.done /\ ex.video.readable >= ex.end_frame)
        => /\ ex.frames = Strided(ex.start_frame, ex.end_frame, ex.skip_frames)
           /\ Len(ex.frames) = CeilDiv(ex.end_frame - ex.start_frame, ex.skip_frames)
           /\ \A n \in 1..Len(ex.frames) :
                 /\ ex.frames[n] < ex.end_frame
                 /\ n > 1 => ex.frames[n - 1] < ex.frames[n]
           /\ ex.reads = ex.end_frame - ex.start_frame
           /\ (ex.start_frame = 0 /\ ex.skip_frames = 1)
                 => Len(ex.frames) = ex.end_frame

\* a finished call with a stride of at least 2 from a start past 0 that has
\* retained two frames and dropped the ones between
C6_Witness ==
    /\ ex.done
    /\ ex.video.readable >= ex.end_frame
    /\ ex.skip_frames >= 2
    /\ ex.start_frame >= 1
    /\ Len(ex.frames) >= 2
    /\ ex.reads > Len(ex.frames)

\* the first position at which a read fails, seen from start
FirstFailure(video, start) == Max(video.readable, start)

\* C7: when a read fails before end_frame is reached, extract_frames stops
\* there and returns the frames retained so far, a prefix of the full strided
\* result; at any point it has made at most end_frame - start_frame reads.
C7_ShortSequenceOnReadFailure ==
    /\ ex.reads <= ex.end_frame - ex.start_frame
    /\ ex.frame_count <= ex.reads
    /\ IsPrefix(ex.frames, Strided(ex.start_frame, ex.end_frame, ex.skip_frames))
    /\ (ex.done /\ ex.video.readable < ex.end_frame /\ ex.start_frame < ex.end_frame)
          => /\ ex.frames = Strided(ex.start_frame,
                                    FirstFailure(ex.video, ex.start_frame),
                                    ex.skip_frames)
             /\ ex.reads = FirstFailure(ex.video, ex.start_frame) - ex.start_frame + 1

\* a finished call whose container ended early: some frames were retained,
\* fewer than the full range holds
C7_Witness ==
    /\ ex.done
    /\ ex.video.readable < ex.end_frame
    /\ Len(ex.frames) >= 1
    /\ Len(ex.frames)
          < Len(Strided(ex.start_frame, ex.end_frame, ex.skip_frames))
    /\ ex.skip_frames >= 2

\* the extracted frame that output frame k comes from
SourceIndex(w, k) == IF w.reverse THEN Len(w.extracted) + 1 - k ELSE k

\* C8: the frames reach the encoder in their final order: output frame k is
\* the processed form of extracted frame k, or of extracted frame M + 1 - k
\* when the reverse flag was set, and the encoder receives all M of them.
C8_FrameOrderPreserved ==
    \A j \in 1..Len(workers) :
        LET w == workers[j] IN
        /\ Len(w.output_frames) <= Len(w.extracted)
        /\ \A k \in 1..Len(w.output_frames) :
              w.output_frames[k].src = w.extracted[SourceIndex(w, k)]
        /\ w.encoder_called
              => /\ Len(w.encoder_input) = Len(w.extracted)
                 /\ \A k \in 1..Len(w.extracted) :
                       w.encoder_input[k].src = w.extracted[SourceIndex(w, k)]
                 /\ files[w.output_path].frames = w.encoder_input

\* a reversed export of at least two frames has reached the encoder
C8_Witness ==
    \E j \in 1..Len(workers) :
        /\ workers[j].encoder_called
        /\ workers[j].reverse
        /\ Len(workers[j].extracted) >= 2
        /\ workers[j].encoder_input[1].src
              = workers[j].extracted[Len(workers[j].extracted)]

\* the number of inputs among the first n that yield no frame
Unreadable(paths, n) == Cardinality({k \in 1..n : paths[k].readable = 0})

\* C9: a batch attempts every input once, in list order; an input that
\* raises is counted as failed and logged with its name, and the next input
\* is still processed; at the end successful + failed = n, successful is the
\* number of files written and failed the number of inputs that raised.
C9_BatchIsolation ==
    \A b \in 1..Len(batches) :
        LET w == batches[b]
            n == Len(w.file_paths)
        IN  /\ Len(w.log) = w.i
            /\ \A k \in 1..w.i :
                  /\ w.log[k].name = w.file_paths[k].name
                  /\ w.log[k].ok = (w.file_paths[k].readable > 0)
            /\ w.successful + w.failed = w.i
            /\ w.failed = Unreadable(w.file_paths, w.i)
            /\ w.successful = Len(w.written)
            /\ \A k \in 1..Len(w.written) : w.file_paths[w.written[k]].readable > 0
            /\ w.pc = "loop" <=> w.i < n
            /\ w.pc \in {"finish", "done"}
                  => /\ w.successful + w.failed = n
                     /\ w.failed = Unreadable(w.file_paths, n)
            /\ \A p \in 1..Len(batch_delivered[b]) :
                  batch_delivered[b][p].kind = "batch_complete"
                      => /\ batch_delivered[b][p].completed = n - Unreadable(w.file_paths, n)
                         /\ batch_delivered[b][p].total = Unreadable(w.file_paths, n)

\* a batch of three readable inputs and one unreadable input, which is not
\* the last, has reported successful = 3 and failed = 1
C9_Witness ==
    \E b \in 1..Len(batches) :
        /\ batches[b].pc = "done"
        /\ Len(batches[b].file_paths) = 4
        /\ batches[b].file_paths[2].readable = 0
        /\ batches[b].successful = 3
        /\ batches[b].failed = 1
        /\ \E p \in 1..Len(batch_delivered[b]) :
              batch_delivered[b][p].kind = "batch_complete"

\* job j has scheduled or delivered a callback of the given kind
Scheduled(j, kind) ==
    \/ \E p \in 1..Len(after_queue) :
          /\ after_queue[p].src = "export"
          /\ after_queue[p].job = j
          /\ after_queue[p].kind = kind
    \/ \E p \in 1..Len(delivered[j]) : delivered[j][p].kind = kind

\* C10: a frame that raises aborts the job: no further frame is processed,
\* the encoder is not called, the job writes no file, and the job takes its
\* failure path (the error is reported, success never is).
C10_FrameFailureAbortsJob ==
    \A j \in 1..Len(workers) :
        LET w == workers[j] IN
        w.frame_failed
            => /\ w.pc \in {"except", "done"}
               /\ w.raised = "frame"
               /\ w.i < w.total
               /\ Len(w.output_frames) = w.i
               /\ ~w.encoder_called
               /\ j \notin files[w.output_path].written_by
               /\ ~Scheduled(j, "saving")
               /\ ~Scheduled(j, "success")
               /\ Scheduled(j, "error") \/ Scheduled(j, "error_not_shown")

\* the second frame of a job has raised after the first was processed, and
\* the worker has finished
C10_Witness ==
    \E j \in 1..Len(workers) :
        /\ workers[j].frame_failed
        /\ workers[j].i = 1
        /\ workers[j].total >= 2
        /\ workers[j].pc = "done"
        /\ ~PendingExport(j)

\* the worker has extracted its frames and there are none
ZeroFrames(w) == w.pc \notin {"extract", "reverse"} /\ w.total = 0

\* job j has had a callback of the given kind run on the interactive thread
Shown(j, kind) == \E p \in 1..Len(delivered[j]) : delivered[j][p].kind = kind

\* C11: an export whose extraction yields zero frames never calls the
\* encoder, writes no file and never reports success, and once it has
\* finished and its callbacks have run the failure has been reported.
C11_EmptySequenceReportedFailed ==
    \A j \in 1..Len(workers) :
        LET w == workers[j] IN
        ZeroFrames(w)
            => /\ ~w.encoder_called
               /\ j \notin files[w.output_path].written_by
               /\ ~Scheduled(j, "success")
               /\ (w.pc = "done" /\ ~PendingExport(j)) => Shown(j, "error")

\* the part of C11 that does not depend on the failure box being shown
C11_EmptySequenceWritesNothing ==
    \A j \in 1..Len(workers) :
        LET w == workers[j] IN
        ZeroFrames(w)
            => /\ ~w.encoder_called
               /\ j \notin files[w.output_path].written_by
               /\ ~Scheduled(j, "success")
               /\ w.pc \in {"except", "done"} => w.raised = "save"

\* C12: the worker uses the session as it was when the job was started: the
\* selection it extracts, the reverse flag it applies, the settings every
\* frame is processed with and the format it encodes are those of the
\* snapshot taken at the start, whatever the interactive thread changes
\* meanwhile.
C12_WorkerUsesStartSnapshot ==
    \A j \in 1..Len(workers) :
        LET w == workers[j] IN
        /\ w.pc # "extract" => w.selection = w.at_start.selection
        /\ w.pc \notin {"extract", "reverse"} => w.reverse = w.at_start.reverse
        /\ \A k \in 1..Len(w.output_frames) :
              w.output_frames[k].settings = w.at_start.settings
        /\ w.encoder_called => files[w.output_path].format = w.at_start.format

\* C13: the log widget, like every widget, is written on the interactive
\* thread only: no export or batch worker thread has inserted text into it.
C13_WidgetsWrittenOnInteractiveThreadOnly ==
    info_text \subseteq {"interactive"}

\* the batch workers that have been started and have not finished
ActiveBatches == {b \in 1..Len(batches) : batches[b].pc # "done"}

\* C14: at most one job, export or batch, is running at any time.
C14_AtMostOneJobRunning ==
    Cardinality(ActiveWorkers) + Cardinality(ActiveBatches) <= 1

\* the frame loop is at the watermark step with a watermark that cannot be
\* loaded
WatermarkFails ==
    /\ frame_it.pc = "watermark"
    /\ watermark_path.name # ""
    /\ ~watermark_path.loadable

\* C15: a watermark that fails is swallowed: the step leaves the image as it
\* was and goes on to the next step, and the frame never ends in an exception
\* because of it nor carries a watermark.
C15_WatermarkBestEffort ==
    /\ [][WatermarkFails
            => /\ frame_it'.img = frame_it.img
               /\ frame_it'.pc = NextStage("watermark")
               /\ frame_it'.swallowed]_vars
    /\ [](frame_it.swallowed
            => /\ ~frame_it.img.watermark
               /\ "watermark" \notin {frame_it.ops[k] : k \in 1..Len(frame_it.ops)}
               /\ frame_it.pc # "raised")

\* a frame whose watermark failed has gone through the colour reduction and
\* left the loop's body
C15_Witness ==
    /\ frame_it.swallowed
    /\ frame_it.pc = "done"
    /\ frame_it.img.palette = 32
    /\ frame_it.img.texts # <<>>

\* the path chosen names a file that cannot be opened as a video
Unopenable(path) == path.name # "" /\ path.total = 0 /\ path.readable = 0

\* C16: after a file that cannot be opened was chosen, the session holds no
\* video metadata and the last box shown is not the one that reports the
\* video as loaded.
C16_UnreadableVideoIsAnError ==
    Unopenable(video_path)
        => /\ ~video_info.set
           /\ last_dialog # "video_loaded"

\* a committed crop region is a rectangle with both spans above the minimum
CropValid(c) ==
    /\ c.x1 < c.x2
    /\ c.y1 < c.y2
    /\ c.x2 - c.x1 > MinCropSpan
    /\ c.y2 - c.y1 > MinCropSpan

\* the drag from `start' to (x, y) has a width or a height of at most the
\* minimum
SmallDrag(start, x, y) ==
    \/ Max(start.x, x) - Min(start.x, x) <= MinCropSpan
    \/ Max(start.y, y) - Min(start.y, y) <= MinCropSpan

\* C17: crop_coords is always None or a rectangle x1 < x2, y1 < y2 with both
\* spans above 20, and releasing the button after a drag of width or height
\* at most 20 leaves crop_coords as it was.
C17_CropRegionInvariant ==
    /\ [](crop_coords.set => CropValid(crop_coords))
    /\ [][\A x \in CropXs, y \in CropYs :
            (crop_start.set /\ SmallDrag(crop_start, x, y) /\ EndCrop(x, y))
                => crop_coords' = crop_coords]_vars

\* a drag made from the lower right to the upper left has been committed,
\* and a second drag is in progress
C17_Witness ==
    /\ crop_coords = Region(0, 20, 21, 50)
    /\ crop_start.set

\* the steps that changed the frame followed
FrameOps == {frame_it.ops[k] : k \in 1..Len(frame_it.ops)}

\* the size of the frame after apply_filters: rotate(expand=True) by 90 or
\* 270 degrees exchanges width and height
FilteredShape ==
    IF filters.rotation \in {90, 270}
    THEN [w |-> frame_it.frame_h, h |-> frame_it.frame_w]
    ELSE [w |-> frame_it.frame_w, h |-> frame_it.frame_h]

\* C18: the crop box applied to a frame is the region scaled by the size of
\* the filtered frame over the size of the canvas the region was selected
\* on, truncated; without a region no crop is applied.
C18_CropBoxFromCanvasAndFilteredFrame ==
    /\ "crop" \in FrameOps
          => frame_it.box = crop_box(crop_coords, FilteredShape.w, FilteredShape.h,
                                     PreviewCanvas)
    /\ ~crop_coords.set => "crop" \notin FrameOps

\* the order C19 states: the filters, the compositor, the colour reduction
ClaimedOrder ==
    <<"rotate", "flip_h", "flip_v", "brightness", "contrast", "saturation",
      "grayscale", "sepia", "crop", "resize", "text", "watermark", "quantize">>

\* the place of a step in the order C19 states
ClaimedPlace(stage) == CHOOSE k \in 1..Len(ClaimedOrder) : ClaimedOrder[k] = stage

\* the colour of the frame followed after brightness, contrast and
\* saturation, each applied when its factor is not 1.0, in that order
ColourBeforeGrayscale ==
    LET p0 == frame_pixel(frame_it.src)
        p1 == IF filters.brightness # 10 THEN Brightness(p0, filters.brightness)
              ELSE p0
        p2 == IF filters.contrast # 10 THEN Contrast(p1, filters.contrast) ELSE p1
    IN  IF filters.saturation # 10 THEN Saturation(p2, filters.saturation) ELSE p2

\* C19: the steps that act on a frame act in the stated order, each at most
\* once; once the sepia step has acted, the frame has the sepia tone of the
\* grey value of its colour, whether or not grayscale is set as well.
C19_FixedStageOrder ==
    /\ \A a, b \in 1..Len(frame_it.ops) :
          a < b => ClaimedPlace(frame_it.ops[a]) < ClaimedPlace(frame_it.ops[b])
    /\ "sepia" \in FrameOps
          => /\ frame_it.img.px = Sepia(ColourBeforeGrayscale)
             /\ filters.grayscale => "grayscale" \in FrameOps

\* a frame has gone through every step, grayscale and sepia included
C19_Witness ==
    /\ frame_it.pc = "done"
    /\ frame_it.ops = ClaimedOrder
    /\ frame_it.img.px # Grayscale(ColourBeforeGrayscale)

\* the nominal playing time of a file: every frame is shown for the one
\* duration the encoder was given, in milliseconds
PlayingTime(file) == Len(file.frames) * file.duration

WithoutEntry(before, after, index) ==
    /\ Len(after) = Len(before) - 1
    /\ \A k \in 1..Len(after) :
          after[k] = IF k < index THEN before[k] ELSE before[k + 1]

\* C21: the overlay list changes only by an entry added at its end or by
\* one entry removed, the others keeping their content and order; Remove
\* with entry index selected removes exactly that entry; no entry has an
\* empty or blank text; and a frame exported carries the overlays of the
\* list drawn first to last.
C21_OverlayListOrdered ==
    /\ [][\/ text_overlays' = text_overlays
          \/ /\ Len(text_overlays') = Len(text_overlays) + 1
             /\ SubSeq(text_overlays', 1, Len(text_overlays)) = text_overlays
          \/ \E index \in 1..Len(text_overlays) :
                WithoutEntry(text_overlays, text_overlays', index)]_vars
    /\ [][\A index \in 0..(Len(text_overlays) - 1) :
            RemoveOverlay(<<index>>)
                => WithoutEntry(text_overlays, text_overlays', index + 1)]_vars
    /\ [](\A k \in 1..Len(text_overlays) :
            text_overlays[k].text \notin {"", " ", "  "}
            /\ strip(text_overlays[k].text) = text_overlays[k].text)
    /\ [][frame_it' # frame_it => frame_it'.img.texts = text_overlays]_vars

\* two overlays are on the list, the stripped " b " first, and a frame has
\* been exported with them, "b" drawn under "a"
C21_Witness ==
    /\ text_overlays = <<Overlay("b", "top"), Overlay("a", "bottom")>>
    /\ frame_it.img.texts = text_overlays
    /\ frame_it.pc = "done"

\* the steps apply_filters is made of
FilterStages ==
    {"rotate", "flip_h", "flip_v", "brightness", "contrast", "saturation",
     "grayscale", "sepia"}

\* the parameter of a step of apply_filters has its identity value: 0 for the
\* rotation, false for the flags, 1.0 for the three factors
AtIdentity(stage) ==
    CASE stage = "rotate" -> filters.rotation = 0
      [] stage = "flip_h" -> ~filters.flip_h
      [] stage = "flip_v" -> ~filters.flip_v
      [] stage = "brightness" -> filters.brightness = 10
      [] stage = "contrast" -> filters.contrast = 10
      [] stage = "saturation" -> filters.saturation = 10
      [] stage = "grayscale" -> ~filters.grayscale
      [] stage = "sepia" -> ~filters.sepia

\* the frame followed has been taken past the given step
PastStage(stage) ==
    \/ frame_it.pc \in {"done", "raised"}
    \/ ClaimedPlace(frame_it.pc) > ClaimedPlace(stage)

\* C22: a step of apply_filters acts on the frame exactly when its parameter
\* is not at its identity value; with every parameter at identity the frame
\* apply_filters returns has the size and the colour of the frame it was
\* given and no step has acted.
C22_IdentityFiltersAreNoOp ==
    /\ \A stage \in FilterStages :
          PastStage(stage) => (stage \in FrameOps <=> ~AtIdentity(stage))
    /\ (frame_it.pc = "crop" /\ \A stage \in FilterStages : AtIdentity(stage))
          => /\ frame_it.ops = <<>>
             /\ frame_it.img = Image(frame_it.frame_w, frame_it.frame_h,
                                     frame_pixel(frame_it.src))

\* apply_filters has returned for a frame of colour (200, 100, 50) with
\* every parameter at identity
C22_Witness ==
    /\ frame_it.pc = "crop"
    /\ \A stage \in FilterStages : AtIdentity(stage)
    /\ frame_it.img.px = <<200, 100, 50>>
    /\ frame_it.img.w = frame_shape.w

\* C23: with 256 colors the colour reduction does not act on the frame; with
\* fewer the frame leaves the loop's body reduced to at most that many
\* colours, and the reduction was made with the dithering the Dithering
\* Method setting names.
C23_QuantizeHonoursColorsAndDither ==
    frame_it.pc = "done"
        => /\ frame_it.colors = 256
                => "quantize" \notin FrameOps /\ frame_it.img.palette = 0
           /\ frame_it.colors < 256
                => /\ frame_it.img.palette \in 1..frame_it.colors
                   /\ frame_it.img.dither = dither_var

\* C23 without the dithering: the reduction acts exactly when colors < 256
\* and leaves at most that many colours
C23_QuantizeHonoursColors ==
    frame_it.pc = "done"
        => /\ frame_it.colors = 256
                => "quantize" \notin FrameOps /\ frame_it.img.palette = 0
           /\ frame_it.colors < 256
                => frame_it.img.palette \in 1..frame_it.colors

\* a callback that sets the export button back to normal is pending
ButtonResetPending ==
    \E p \in 1..Len(after_queue) :
        after_queue[p].src = "export" /\ after_queue[p].kind = "button_normal"

\* C24: once export_gif has disabled the export button and started a
\* worker, the button is eventually normal again, whether the job succeeds or
\* raises; and while the button is disabled some worker is still running or
\* the callback that resets the button is pending.
C24_ExportButtonReenabled ==
    /\ (export_button = "disabled") ~> (export_button = "normal")
    /\ [](export_button = "disabled"
            => ActiveWorkers # {} \/ ButtonResetPending)

\* a job that raised while processing its second frame has finished and the
\* button is normal again
C24_Witness ==
    /\ export_button = "normal"
    /\ workers[1].pc = "done"
    /\ workers[1].raised = "frame"
    /\ workers[1].i = 1

\* C25: whenever preview frames are loaded, video_path is the non-empty path
\* of the video they were decoded from, and video_info is that video's
\* metadata.
C25_SessionDescribesOneVideo ==
    frames # <<>>
        => /\ video_path.name # ""
           /\ video_info = get_video_info(video_path)
           /\ frames = extract_frames_default(
                           video_path, Max(1, video_path.total \div PreviewTarget))

\* C26: at most one animate_preview callback is pending, and the preview is
\* running exactly when the play button shows Pause.
C26_AtMostOnePreviewTimer ==
    /\ preview_timers <= 1
    /\ preview_running <=> play_button = "Pause"

\* C27: while preview frames are loaded, preview_frame_index is a position
\* of the frame list.
C27_PreviewIndexInRange ==
    frames # <<>> => preview_frame_index \in 0..(Len(frames) - 1)

\* playback is running, with a callback pending, on a loaded video of one
\* preview frame, and the position is on that frame
C27_Witness ==
    /\ preview_running
    /\ preview_timers > 0
    /\ Len(frames) = 1
    /\ preview_frame_index = 0
    /\ last_dialog = "video_loaded"

\* lines 707-717: the crop box display_frame computes for the frame it is
\* given, which update_preview_frame and animate_preview have taken through
\* apply_filters
display_crop_box ==
    crop_box(crop_coords, FilteredShape.w, FilteredShape.h, DisplayCanvas)

\* C28: the crop box the export applies to a frame is the crop box the
\* preview computes for the same frame and the same crop region.
C28_PreviewAndExportCropAgree ==
    "crop" \in FrameOps => frame_it.box = display_crop_box

====
